---- MODULE Spec2Model ----
(***************************************************************************)
(* Model of scripts/create_issues.py: the GitHub issue bulk creator.       *)
(*                                                                         *)
(* A Python str is modelled as a sequence of tokens (so that f-strings and *)
(* ",".join are concatenations and str.strip removes whitespace tokens);   *)
(* Python's None is the reserved one-token value None.  A remote call is   *)
(* one run_gh_command invocation; the GitHub side is the pair              *)
(* gh_milestones / gh_labels, and every invocation may also fail           *)
(* (CalledProcessError), whatever the GitHub side holds.                   *)
(***************************************************************************)
EXTENDS Integers, Sequences, FiniteSets, TLC

\* ------------------------------------------------------------------ bounds
MaxIssues == 2
MaxNames == 2

\* --------------------------------------------------------- program constants
FakeId == 1

\* ------------------------------------------------------------ Python values
None == <<"None">>
NoneInt == -1
\* What str.strip() removes: the characters str.isspace() holds of.  The ASCII
\* ones are the space, \t, \n, \r, \f, the vertical tab (0x0b) and the four
\* separators 0x1c to 0x1f; beyond ASCII, U+0085, U+00A0 and U+1680.  Those
\* without an escape are written as the characters themselves.  The spaces
\* U+2000 to U+200A, U+2028, U+2029, U+202F, U+205F and U+3000, which
\* str.strip() removes too, are not accepted in a string of this language.
Whitespace ==
    {" ", "\t", "\n", "\r", "\f", "", "", "", "", "",
     "", " ", " "}
Numerals == <<"0", "1", "2", "3", "4", "5", "6", "7", "8", "9">>

\* mutant: "is not None" instead of truthiness
Truthy_NotNone(s) == s # None

Truthy(s) == s # None /\ s # <<>>
TruthyInt(n) == n # NoneInt /\ n # 0

RECURSIVE LStrip(_)
LStrip(s) == IF s # <<>> /\ Head(s) \in Whitespace THEN LStrip(Tail(s)) ELSE s

RECURSIVE RStrip(_)
RStrip(s) ==
    IF s # <<>> /\ s[Len(s)] \in Whitespace THEN RStrip(SubSeq(s, 1, Len(s) - 1)) ELSE s

Strip(s) == RStrip(LStrip(s))

\* str(n) for a one-digit number, and int(s), its inverse
Str(n) == <<Numerals[n + 1]>>
ParseInt(s) == CHOOSE n \in 0..(Len(Numerals) - 1) : Str(n) = s

RECURSIVE Join(_, _)
Join(sep, parts) ==
    IF parts = <<>> THEN <<>>
    ELSE IF Len(parts) = 1 THEN parts[1]
    ELSE parts[1] \o sep \o Join(sep, Tail(parts))

Get(d, key, default) == IF key \in DOMAIN d THEN d[key] ELSE default

Put(f, k, v) == [x \in (DOMAIN f) \cup {k} |-> IF x = k THEN v ELSE f[x]]

EmptyDict == [x \in {} |-> 0]

\* ------------------------------------------------------------------- inputs
Repo == <<"Zabooya/HandEvaluation">>
DefaultColor == <<"0366d6">>
MilestoneTitles == {<<"M1">>, <<"M2">>}
LabelNames == {<<"L1">>, <<"L2">>}
TitleValues == {<<>>, <<"T">>}

RECURSIVE SeqsUpTo(_, _)
SeqsUpTo(S, n) ==
    IF n = 0 THEN {<<>>}
    ELSE LET shorter == SeqsUpTo(S, n - 1)
         IN shorter \cup {Append(s, x) : s \in shorter, x \in S}

Field(key, values) == {EmptyDict} \cup {[k \in {key} |-> v] : v \in values}

LabelLists(n) == SeqsUpTo(LabelNames, n) \ (IF n = 0 THEN {} ELSE SeqsUpTo(LabelNames, n - 1))

\* the issue records that name n milestones and labels in all: every key is
\* optional
IssueRecords(n) ==
    {t @@ m @@ l :
        t \in Field("title", TitleValues),
        m \in {EmptyDict},
        l \in IF n = 0 THEN {EmptyDict} ELSE Field("labels", LabelLists(n)) \ {EmptyDict}}
    \cup
    (IF n = 0 THEN {}
     ELSE {t @@ m @@ l :
            t \in Field("title", TitleValues),
            m \in Field("milestone", MilestoneTitles) \ {EmptyDict},
            l \in IF n = 1 THEN {EmptyDict}
                  ELSE Field("labels", LabelLists(n - 1)) \ {EmptyDict}})

\* the issue lists of at most n records that name at most k milestones and
\* labels in all
RECURSIVE IssueLists(_, _)
IssueLists(n, k) ==
    IF n = 0 THEN {<<>>}
    ELSE {<<>>} \cup UNION {{<<r>> \o rest : r \in IssueRecords(j),
                                             rest \in IssueLists(n - 1, k - j)}
                            : j \in 0..k}

\* What open and yaml.safe_load can give: an error; a value that is not a
\* mapping (None for an empty file, a list, a scalar); a mapping with or
\* without the key "issues".
Unreadable == [kind |-> "unreadable"]
NotAMapping == [kind |-> "not a mapping"]
Documents ==
    {Unreadable, NotAMapping, [kind |-> "mapping", data |-> EmptyDict]}
        \cup {[kind |-> "mapping", data |-> [k \in {"issues"} |-> b]] :
                b \in IssueLists(MaxIssues, MaxNames)}

\* One record with every key optional, a body, an empty milestone title and
\* up to MaxNames labels: the documents on which the argv of the submission is
\* read.
BodyValues == {<<>>, <<"B">>}
RichRecords ==
    {t @@ b @@ m @@ l :
        t \in Field("title", TitleValues),
        b \in Field("body", BodyValues),
        m \in Field("milestone", MilestoneTitles \cup {<<>>}),
        l \in Field("labels", SeqsUpTo(LabelNames, MaxNames))}
RichDocuments ==
    {Unreadable, NotAMapping, [kind |-> "mapping", data |-> EmptyDict]}
        \cup {[kind |-> "mapping", data |-> [k \in {"issues"} |-> <<r>>]] :
                r \in RichRecords}

\* The gh program on the machine: not installed; installed but without a
\* logged-in account ("gh --version" runs, every command that reaches GitHub
\* exits non-zero); installed and logged in.
GhStates == {"missing", "logged out", "ready"}

\* the GitHub side before the run
InitialGitHub ==
    {[milestones |-> EmptyDict, labels |-> {}],
     [milestones |-> Put(EmptyDict, <<"M1">>, 2), labels |-> {<<"L1">>}]}

VARIABLES
    pc,               \* position of main / process_yaml
    dry_run,          \* self.dry_run
    milestone_cache,  \* self.milestone_cache
    label_cache,      \* self.label_cache
    issues,           \* process_yaml: issues
    idx,              \* process_yaml: position of the for loop (next record)
    created,          \* process_yaml: created
    failed,           \* process_yaml: failed
    summary,          \* what process_yaml printed at its end
    exit_code,        \* exit status of the process (NoneInt while running)
    gh_milestones,    \* GitHub side: milestone title -> number
    gh_labels,        \* GitHub side: label names
    yaml_file,        \* the content of the configuration document
    calls,            \* every run_gh_command invocation so far, tagged by record
    invocations,      \* every create_issue invocation so far: its record, its result
    first_run,        \* the summary of the dry run that preceded this run, if any
    gh_cli            \* the gh program of the machine: missing, logged out or ready

vars == <<pc, dry_run, milestone_cache, label_cache, issues, idx, created, failed,
          summary, exit_code, gh_milestones, gh_labels, yaml_file, calls, invocations,
          first_run, gh_cli>>

\* --------------------------------------------------------- the GitHub side
NextNumber(ms) ==
    IF DOMAIN ms = {} THEN 1
    ELSE 1 + (CHOOSE n \in {ms[t] : t \in DOMAIN ms} :
                \A t \in DOMAIN ms : ms[t] <= n)

\* argv of the five gh invocations
MilestoneLookupArgs(repo, title) ==
    << <<"api">>, <<"repos/">> \o repo \o <<"/milestones">>, <<"--jq">>,
       <<".[] | select(.title == \"">> \o title \o <<"\") | .number">> >>

MilestoneCreateArgs(repo, title) ==
    << <<"api">>, <<"repos/">> \o repo \o <<"/milestones">>, <<"-f">>,
       <<"title=">> \o title, <<"--jq">>, <<".number">> >>

LabelLookupArgs(label) ==
    << <<"label">>, <<"list">>, <<"--json">>, <<"name">>, <<"--jq">>,
       <<".[] | select(.name == \"">> \o label \o <<"\") | .name">> >>

LabelCreateArgs(label, color) ==
    << <<"label">>, <<"create">>, label, <<"--color">>, color >>

\* mutant: only the first label is passed
IssueCreateArgs_FirstLabel(title, body, labels, milestone) ==
    << <<"issue">>, <<"create">>, <<"--title">>, title, <<"--body">>, body >>
        \o (IF labels # <<>> THEN << <<"--label">>, labels[1] >> ELSE <<>>)
        \o (IF Truthy(milestone) THEN << <<"--milestone">>, milestone >> ELSE <<>>)

\* mutant: --label is passed also for an empty label list
IssueCreateArgs_AlwaysLabel(title, body, labels, milestone) ==
    << <<"issue">>, <<"create">>, <<"--title">>, title, <<"--body">>, body >>
        \o << <<"--label">>, Join(<<",">>, labels) >>
        \o (IF Truthy(milestone) THEN << <<"--milestone">>, milestone >> ELSE <<>>)

IssueCreateArgs(title, body, labels, milestone) ==
    << <<"issue">>, <<"create">>, <<"--title">>, title, <<"--body">>, body >>
        \o (IF labels # <<>> THEN << <<"--label">>, Join(<<",">>, labels) >> ELSE <<>>)
        \o (IF Truthy(milestone) THEN << <<"--milestone">>, milestone >> ELSE <<>>)

IsMilestoneLookup(args) == Len(args) = 4 /\ args[1] = <<"api">> /\ args[3] = <<"--jq">>
IsMilestoneCreate(args) == Len(args) = 6 /\ args[1] = <<"api">> /\ args[3] = <<"-f">>
IsLabelLookup(args) == args[1] = <<"label">> /\ args[2] = <<"list">>
IsLabelCreate(args) == args[1] = <<"label">> /\ args[2] = <<"create">>
IsIssueCreate(args) == args[1] = <<"issue">> /\ args[2] = <<"create">>

Inner(s) == SubSeq(s, 2, Len(s) - 1)

\* The answers gh can give when the command exits with status 0: the set of
\* [w, stdout], w being the state with the command's effect on GitHub.
GhSuccess(w, args) ==
    IF w.gh_cli # "ready" THEN {}
    ELSE IF IsMilestoneLookup(args) THEN
        LET title == Inner(args[4])
        IN {[w |-> w,
             stdout |-> IF title \in DOMAIN w.gh_milestones
                          THEN Str(w.gh_milestones[title]) \o <<"\n">>
                          ELSE <<>>]}
    ELSE IF IsMilestoneCreate(args) THEN
        LET title == Tail(args[4])
            n == NextNumber(w.gh_milestones)
        IN IF title \in DOMAIN w.gh_milestones THEN {}
           ELSE {[w |-> [w EXCEPT !.gh_milestones = Put(@, title, n)],
                  stdout |-> Str(n) \o <<"\n">>]}
    ELSE IF IsLabelLookup(args) THEN
        LET label == Inner(args[6])
        IN {[w |-> w,
             stdout |-> IF label \in w.gh_labels THEN label \o <<"\n">> ELSE <<>>]}
    ELSE IF IsLabelCreate(args) THEN
        IF args[3] \in w.gh_labels THEN {}
        ELSE {[w |-> [w EXCEPT !.gh_labels = @ \cup {args[3]}], stdout |-> <<>>]}
    ELSE
        {[w |-> w, stdout |-> <<"https://github.com/issue-url">> \o <<"\n">>],
         [w |-> w, stdout |-> <<>>]}

\* ------------------------------------------------------ GitHubIssueCreator
\* Every operator takes the state w (self, the GitHub side, the invocations made
\* so far) and gives the set of its possible outcomes [w, ret].

\* The entry of an invocation in w.calls: its argv and what it returned.  The
\* history of a run does not keep the answer of a query (a create request
\* follows it exactly when it found nothing), it keeps the answer of a request
\* that changes GitHub; w.answers asks for the answers of the queries too.
Invocation(w, args, out) ==
    [args |-> args,
     ret |-> IF ~w.answers /\ (IsMilestoneLookup(args) \/ IsLabelLookup(args))
               THEN <<>> ELSE out]

\* w.raised: the exception that is unwinding the call, NoException when none is
NoException == ""

\* subprocess.run raises CalledProcessError when gh exits with a non-zero
\* status, which is caught and gives None, and FileNotFoundError when there is
\* no gh program, which is not caught: it is recorded in w.raised, and ret is
\* then not a value that was returned.  An exception unwinds the whole
\* create_issue: no statement after the raise runs, so an invocation that
\* would come after it is not made and changes nothing.
run_gh_command(w, args) ==
    LET Returned(v, out) ==
            [w |-> [v EXCEPT !.calls = Append(@, Invocation(w, args, out))], ret |-> out]
    IN IF w.raised # NoException THEN {[w |-> w, ret |-> None]}
       ELSE IF w.gh_cli = "missing" THEN
            {[w |-> [w EXCEPT !.calls = Append(@, Invocation(w, args, None)),
                              !.raised = "FileNotFoundError"],
              ret |-> None]}
       ELSE {Returned(r.w, Strip(r.stdout)) : r \in GhSuccess(w, args)}
               \cup {Returned(w, None)}

\* mutant: a query that fails ends the resolution, no create request is made
milestone_remote_StopOnQueryError(w, title) ==
    UNION {
        IF l.ret = None THEN {[w |-> l.w, ret |-> NoneInt]}
        ELSE IF Truthy(Strip(l.ret)) THEN
            LET milestone_number == ParseInt(Strip(l.ret))
            IN {[w |-> [l.w EXCEPT !.milestone_cache = Put(@, title, milestone_number)],
                 ret |-> milestone_number]}
        ELSE
            {IF Truthy(c.ret) THEN
                 LET milestone_number == ParseInt(Strip(c.ret))
                 IN [w |-> [c.w EXCEPT
                              !.milestone_cache = Put(@, title, milestone_number)],
                     ret |-> milestone_number]
             ELSE [w |-> c.w, ret |-> NoneInt]
             : c \in run_gh_command(l.w, MilestoneCreateArgs(l.w.repo, title))}
        : l \in run_gh_command(w, MilestoneLookupArgs(w.repo, title))}

\* create_or_get_milestone after the cache and dry-run checks: the query, and
\* the create request when the query gave nothing
milestone_remote(w, title) ==
    UNION {
        IF Truthy(l.ret) /\ Truthy(Strip(l.ret)) THEN
            LET milestone_number == ParseInt(Strip(l.ret))
            IN {[w |-> [l.w EXCEPT !.milestone_cache = Put(@, title, milestone_number)],
                 ret |-> milestone_number]}
        ELSE
            {IF Truthy(c.ret) THEN
                 LET milestone_number == ParseInt(Strip(c.ret))
                 IN [w |-> [c.w EXCEPT
                              !.milestone_cache = Put(@, title, milestone_number)],
                     ret |-> milestone_number]
             ELSE [w |-> c.w, ret |-> NoneInt]
             : c \in run_gh_command(l.w, MilestoneCreateArgs(l.w.repo, title))}
        : l \in run_gh_command(w, MilestoneLookupArgs(w.repo, title))}

\* mutant: the cache is not consulted
create_or_get_milestone_NoCacheCheck(w, title) ==
    IF w.dry_run THEN
        {[w |-> [w EXCEPT !.milestone_cache = Put(@, title, FakeId)], ret |-> FakeId]}
    ELSE milestone_remote(w, title)

\* mutant: the placeholder identifier of a dry run is 0
create_or_get_milestone_FakeZero(w, title) ==
    IF title \in DOMAIN w.milestone_cache THEN
        {[w |-> w, ret |-> w.milestone_cache[title]]}
    ELSE IF w.dry_run THEN
        {[w |-> [w EXCEPT !.milestone_cache = Put(@, title, 0)], ret |-> 0]}
    ELSE milestone_remote(w, title)

create_or_get_milestone(w, title) ==
    IF title \in DOMAIN w.milestone_cache THEN
        {[w |-> w, ret |-> w.milestone_cache[title]]}
    ELSE IF w.dry_run THEN
        {[w |-> [w EXCEPT !.milestone_cache = Put(@, title, FakeId)], ret |-> FakeId]}
    ELSE milestone_remote(w, title)

InList(x, list) == \E k \in 1..Len(list) : list[k] = x

\* mutant: the cache is assigned the label instead of being appended to
label_remote_Assign(w, label, color) ==
    UNION {
        IF Truthy(l.ret) /\ Strip(l.ret) = label THEN
            {[w |-> [l.w EXCEPT !.label_cache = <<label>>], ret |-> TRUE]}
        ELSE
            {IF c.ret # None THEN
                 [w |-> [c.w EXCEPT !.label_cache = <<label>>], ret |-> TRUE]
             ELSE [w |-> c.w, ret |-> FALSE]
             : c \in run_gh_command(l.w, LabelCreateArgs(label, color))}
        : l \in run_gh_command(w, LabelLookupArgs(label))}

\* mutant: the answer of the query is never recognised as the label
label_remote_NeverFound(w, label, color) ==
    UNION {
        {IF c.ret # None THEN
             [w |-> [c.w EXCEPT !.label_cache = Append(@, label)], ret |-> TRUE]
         ELSE [w |-> c.w, ret |-> FALSE]
         : c \in run_gh_command(l.w, LabelCreateArgs(label, color))}
        : l \in run_gh_command(w, LabelLookupArgs(label))}

\* create_label_if_missing after the cache and dry-run checks
label_remote(w, label, color) ==
    UNION {
        IF Truthy(l.ret) /\ Strip(l.ret) = label THEN
            {[w |-> [l.w EXCEPT !.label_cache = Append(@, label)], ret |-> TRUE]}
        ELSE
            {IF c.ret # None THEN
                 [w |-> [c.w EXCEPT !.label_cache = Append(@, label)], ret |-> TRUE]
             ELSE [w |-> c.w, ret |-> FALSE]
             : c \in run_gh_command(l.w, LabelCreateArgs(label, color))}
        : l \in run_gh_command(w, LabelLookupArgs(label))}

\* mutant: dry-run mode is not checked
create_label_if_missing_NoDryRun(w, label, color) ==
    IF InList(label, w.label_cache) THEN {[w |-> w, ret |-> TRUE]}
    ELSE label_remote(w, label, color)

\* mutant: the cache is not consulted
create_label_if_missing_NoCacheCheck(w, label, color) ==
    IF w.dry_run THEN
        {[w |-> [w EXCEPT !.label_cache = Append(@, label)], ret |-> TRUE]}
    ELSE label_remote(w, label, color)

create_label_if_missing(w, label, color) ==
    IF InList(label, w.label_cache) THEN
        {[w |-> w, ret |-> TRUE]}
    ELSE IF w.dry_run THEN
        {[w |-> [w EXCEPT !.label_cache = Append(@, label)], ret |-> TRUE]}
    ELSE label_remote(w, label, color)

\* create_issue, "Get milestone number if specified": the outcomes of the
\* resolution; ret is NoneInt when no milestone is named
resolve_milestone(w, milestone) ==
    IF Truthy(milestone) THEN create_or_get_milestone(w, milestone)
    ELSE {[w |-> w, ret |-> NoneInt]}

\* mutant: the early return is missing
MilestoneAborts_Never(m, milestone) == FALSE

\* create_issue: "if not milestone_number: return False", m an outcome of the above
MilestoneAborts(m, milestone) == Truthy(milestone) /\ ~TruthyInt(m.ret)

\* create_issue, "Ensure labels exist": the states the loop over labels can end
\* in, from any state of ws (a failure is only a warning)
RECURSIVE ensure_labels(_, _)
ensure_labels(ws, labels) ==
    IF labels = <<>> THEN ws
    ELSE ensure_labels(
            UNION {{r.w : r \in create_label_if_missing(w, Head(labels), DefaultColor)}
                   : w \in ws},
            Tail(labels))

\* mutant: a submission that did not fail counts, whatever it printed
submit_issue_NotNone(w, title, body, labels, milestone) ==
    IF w.dry_run THEN {[w |-> w, ret |-> TRUE]}
    ELSE {[w |-> s.w, ret |-> s.ret # None]
          : s \in run_gh_command(w, IssueCreateArgs(title, body, labels, milestone))}

\* create_issue from "if self.dry_run" on: the dry-run report, or the submission
submit_issue(w, title, body, labels, milestone) ==
    IF w.dry_run THEN {[w |-> w, ret |-> TRUE]}
    ELSE {[w |-> s.w, ret |-> Truthy(s.ret)]
          : s \in run_gh_command(w, IssueCreateArgs(title, body, labels, milestone))}

\* mutant: the labels are ensured before the milestone is resolved
create_issue_LabelsFirst(w, issue_data) ==
    LET title == Get(issue_data, "title", None)
        body == Get(issue_data, "body", <<>>)
        labels == Get(issue_data, "labels", <<>>)
        milestone == Get(issue_data, "milestone", None)
    IN IF ~Truthy(title) THEN {[w |-> w, ret |-> FALSE]}
       ELSE
        LET labelled == ensure_labels({w}, labels)
            resolved == UNION {resolve_milestone(v, milestone) : v \in labelled}
            aborted == {m \in resolved : MilestoneAborts(m, milestone)}
        IN {[w |-> m.w, ret |-> FALSE] : m \in aborted}
             \cup UNION {submit_issue(m.w, title, body, labels, milestone)
                            : m \in resolved \ aborted}

create_issue(w, issue_data) ==
    LET title == Get(issue_data, "title", None)
        body == Get(issue_data, "body", <<>>)
        labels == Get(issue_data, "labels", <<>>)
        milestone == Get(issue_data, "milestone", None)
    IN IF ~Truthy(title) THEN {[w |-> w, ret |-> FALSE]}
       ELSE
        LET resolved == resolve_milestone(w, milestone)
            aborted == {m \in resolved : MilestoneAborts(m, milestone)}
            labelled == ensure_labels({m.w : m \in resolved \ aborted}, labels)
        IN {[w |-> m.w, ret |-> FALSE] : m \in aborted}
             \cup UNION {submit_issue(v, title, body, labels, milestone) : v \in labelled}

\* -------------------------------------------------------------- the process
Self ==
    [repo |-> Repo, dry_run |-> dry_run,
     milestone_cache |-> milestone_cache, label_cache |-> label_cache,
     gh_milestones |-> gh_milestones, gh_labels |-> gh_labels, gh_cli |-> gh_cli,
     calls |-> <<>>, answers |-> FALSE, raised |-> NoException]

Tagged(made, i) ==
    [k \in 1..Len(made) |-> [issue |-> i, args |-> made[k].args, ret |-> made[k].ret]]

NothingPrinted == [printed |-> "nothing", total |-> NoneInt, created |-> NoneInt,
                   failed |-> NoneInt]
NoIssuesFound == [printed |-> "No issues found in YAML file", total |-> NoneInt,
                  created |-> NoneInt, failed |-> NoneInt]
GhNotFound == [printed |-> "Error: GitHub CLI (gh) not found or not authenticated",
               total |-> NoneInt, created |-> NoneInt, failed |-> NoneInt]
LoadFailed == [printed |-> "Error loading YAML", total |-> NoneInt, created |-> NoneInt,
               failed |-> NoneInt]
Traceback == [printed |-> "Traceback: AttributeError", total |-> NoneInt,
              created |-> NoneInt, failed |-> NoneInt]
Uncaught == [printed |-> "Traceback: FileNotFoundError", total |-> NoneInt,
             created |-> NoneInt, failed |-> NoneInt]

Start(documents) ==
    /\ pc = "main"
    /\ dry_run \in BOOLEAN
    /\ milestone_cache = EmptyDict
    /\ label_cache = <<>>
    /\ issues = <<>>
    /\ idx = 1
    /\ created = 0
    /\ failed = 0
    /\ summary = NothingPrinted
    /\ exit_code = NoneInt
    /\ \E g \in InitialGitHub :
        \* a gh that is missing or logged out never reaches the repository:
        \* the empty repository stands for every repository then
        /\ gh_cli = "ready" \/ g.labels = {}
        /\ gh_milestones = g.milestones
        /\ gh_labels = g.labels
    /\ yaml_file \in documents
    /\ calls = <<>>
    /\ invocations = <<>>
    /\ first_run = NothingPrinted
    /\ gh_cli \in GhStates

Init == Start(Documents)

InitRich == Start(RichDocuments)

\* main: "gh --version" runs, and the creator is constructed
GhFound ==
    /\ pc = "main"
    /\ gh_cli # "missing"
    /\ pc' = "load"
    /\ UNCHANGED <<dry_run, milestone_cache, label_cache, issues, idx, created, failed,
                   summary, exit_code, gh_milestones, gh_labels, yaml_file, calls,
                   invocations, first_run, gh_cli>>

\* main: "gh --version" cannot run or fails: sys.exit(1)
GhMissing ==
    /\ pc = "main"
    /\ gh_cli = "missing"
    /\ summary' = GhNotFound
    /\ pc' = "exited"
    /\ exit_code' = 1
    /\ UNCHANGED <<dry_run, milestone_cache, label_cache, issues, idx, created, failed,
                   gh_milestones, gh_labels, yaml_file, calls, invocations,
                   first_run, gh_cli>>

\* mutant: the error is printed but the process does not exit with status 1
LoadError_ExitZero ==
    /\ pc = "load"
    /\ yaml_file.kind = "unreadable"
    /\ summary' = LoadFailed
    /\ pc' = "exited"
    /\ exit_code' = 0
    /\ UNCHANGED <<dry_run, milestone_cache, label_cache, issues, idx, created, failed,
                   gh_milestones, gh_labels, yaml_file, calls, invocations,
                   first_run, gh_cli>>

\* process_yaml: the document cannot be opened or parsed: sys.exit(1)
LoadError ==
    /\ pc = "load"
    /\ yaml_file.kind = "unreadable"
    /\ summary' = LoadFailed
    /\ pc' = "exited"
    /\ exit_code' = 1
    /\ UNCHANGED <<dry_run, milestone_cache, label_cache, issues, idx, created, failed,
                   gh_milestones, gh_labels, yaml_file, calls, invocations,
                   first_run, gh_cli>>

\* process_yaml: the document is not a mapping: data.get raises AttributeError,
\* which nothing catches: traceback, exit status 1
LoadCrash ==
    /\ pc = "load"
    /\ yaml_file.kind = "not a mapping"
    /\ summary' = Traceback
    /\ pc' = "exited"
    /\ exit_code' = 1
    /\ UNCHANGED <<dry_run, milestone_cache, label_cache, issues, idx, created, failed,
                   gh_milestones, gh_labels, yaml_file, calls, invocations, first_run, gh_cli>>

\* process_yaml: the document has no issue: "No issues found", return
LoadEmpty ==
    /\ pc = "load"
    /\ yaml_file.kind = "mapping"
    /\ Get(yaml_file.data, "issues", <<>>) = <<>>
    /\ issues' = Get(yaml_file.data, "issues", <<>>)
    /\ summary' = NoIssuesFound
    /\ pc' = "exited"
    /\ exit_code' = 0
    /\ UNCHANGED <<dry_run, milestone_cache, label_cache, idx, created, failed,
                   gh_milestones, gh_labels, yaml_file, calls, invocations, first_run, gh_cli>>

\* process_yaml: the document has issues: the counters are set and the loop starts
LoadIssues ==
    /\ pc = "load"
    /\ yaml_file.kind = "mapping"
    /\ Get(yaml_file.data, "issues", <<>>) # <<>>
    /\ issues' = Get(yaml_file.data, "issues", <<>>)
    /\ created' = 0
    /\ failed' = 0
    /\ idx' = 1
    /\ pc' = "loop"
    /\ UNCHANGED <<dry_run, milestone_cache, label_cache, summary, exit_code,
                   gh_milestones, gh_labels, yaml_file, calls, invocations, first_run, gh_cli>>

\* mutant: "failed += 1" is not under the else
ProcessIssue_AlwaysFailed ==
    /\ pc = "loop"
    /\ idx <= Len(issues)
    /\ \E r \in create_issue(Self, issues[idx]) :
        /\ milestone_cache' = r.w.milestone_cache
        /\ label_cache' = r.w.label_cache
        /\ gh_milestones' = r.w.gh_milestones
        /\ gh_labels' = r.w.gh_labels
        /\ calls' = calls \o Tagged(r.w.calls, idx)
        /\ IF r.w.raised # NoException
           THEN \* the exception leaves process_yaml and main: traceback
                /\ pc' = "exited"
                /\ exit_code' = 1
                /\ summary' = Uncaught
                /\ UNCHANGED <<invocations, created, failed, idx>>
           ELSE /\ invocations' =
                    Append(invocations, [issue_data |-> issues[idx], ret |-> r.ret])
                /\ created' = IF r.ret THEN created + 1 ELSE created
                /\ failed' = failed + 1
                /\ idx' = idx + 1
                /\ UNCHANGED <<pc, summary, exit_code>>
    /\ UNCHANGED <<dry_run, issues, yaml_file, first_run, gh_cli>>

\* mutant: the loop stops at the first issue that fails
ProcessIssue_StopOnFailure ==
    /\ pc = "loop"
    /\ idx <= Len(issues)
    /\ \E r \in create_issue(Self, issues[idx]) :
        /\ milestone_cache' = r.w.milestone_cache
        /\ label_cache' = r.w.label_cache
        /\ gh_milestones' = r.w.gh_milestones
        /\ gh_labels' = r.w.gh_labels
        /\ calls' = calls \o Tagged(r.w.calls, idx)
        /\ IF r.w.raised # NoException
           THEN \* the exception leaves process_yaml and main: traceback
                /\ pc' = "exited"
                /\ exit_code' = 1
                /\ summary' = Uncaught
                /\ UNCHANGED <<invocations, created, failed, idx>>
           ELSE /\ invocations' =
                    Append(invocations, [issue_data |-> issues[idx], ret |-> r.ret])
                /\ created' = IF r.ret THEN created + 1 ELSE created
                /\ failed' = IF r.ret THEN failed ELSE failed + 1
                /\ idx' = IF r.ret THEN idx + 1 ELSE Len(issues) + 1
                /\ UNCHANGED <<pc, summary, exit_code>>
    /\ UNCHANGED <<dry_run, issues, yaml_file, first_run, gh_cli>>

\* process_yaml: one iteration of "for issue in issues", which nothing wraps
\* in a try
ProcessIssue ==
    /\ pc = "loop"
    /\ idx <= Len(issues)
    /\ \E r \in create_issue(Self, issues[idx]) :
        /\ milestone_cache' = r.w.milestone_cache
        /\ label_cache' = r.w.label_cache
        /\ gh_milestones' = r.w.gh_milestones
        /\ gh_labels' = r.w.gh_labels
        /\ calls' = calls \o Tagged(r.w.calls, idx)
        /\ IF r.w.raised # NoException
           THEN \* the exception leaves process_yaml and main: traceback
                /\ pc' = "exited"
                /\ exit_code' = 1
                /\ summary' = Uncaught
                /\ UNCHANGED <<invocations, created, failed, idx>>
           ELSE /\ invocations' =
                    Append(invocations, [issue_data |-> issues[idx], ret |-> r.ret])
                /\ created' = IF r.ret THEN created + 1 ELSE created
                /\ failed' = IF r.ret THEN failed ELSE failed + 1
                /\ idx' = idx + 1
                /\ UNCHANGED <<pc, summary, exit_code>>
    /\ UNCHANGED <<dry_run, issues, yaml_file, first_run, gh_cli>>

\* process_yaml: the summary after the loop; main returns, exit status 0
Summary ==
    /\ pc = "loop"
    /\ idx > Len(issues)
    /\ summary' = [printed |-> "Summary", total |-> Len(issues), created |-> created,
                   failed |-> failed]
    /\ pc' = "exited"
    /\ exit_code' = 0
    /\ UNCHANGED <<dry_run, milestone_cache, label_cache, issues, idx, created, failed,
                   gh_milestones, gh_labels, yaml_file, calls, invocations, first_run, gh_cli>>

\* The program is started again without --dry-run on the same document, as the
\* dry run's last message suggests: a new process, a new GitHubIssueCreator.
Relaunch ==
    /\ pc = "exited"
    /\ dry_run
    /\ summary.printed = "Summary"
    /\ first_run' = summary
    /\ dry_run' = FALSE
    /\ pc' = "main"
    /\ milestone_cache' = EmptyDict
    /\ label_cache' = <<>>
    /\ issues' = <<>>
    /\ idx' = 1
    /\ created' = 0
    /\ failed' = 0
    /\ summary' = NothingPrinted
    /\ exit_code' = NoneInt
    /\ calls' = <<>>
    /\ invocations' = <<>>
    /\ UNCHANGED <<gh_milestones, gh_labels, yaml_file, gh_cli>>

Next ==
    \/ GhFound
    \/ GhMissing
    \/ LoadError
    \/ LoadCrash
    \/ LoadEmpty
    \/ LoadIssues
    \/ ProcessIssue
    \/ Summary

Spec == Init /\ [][Next]_vars

\* every step of the program is taken once it can be: the script is sequential
\* and nothing in it waits
FairSpec == Spec /\ WF_vars(Next)

NextPair == Next \/ Relaunch

SpecPair == Init /\ [][NextPair]_vars

\* the program on the documents of one record with a body
SpecRich == InitRich /\ [][Next]_vars

\* ------------------------------------------------------- reading the state
Invoked == 1..Len(invocations)
Record(i) == invocations[i].issue_data
TitleOf(i) == Get(Record(i), "title", None)
MilestoneOf(i) == Get(Record(i), "milestone", None)
LabelsOf(i) == Get(Record(i), "labels", <<>>)

Calls == 1..Len(calls)
MilestoneLookups(t) == {k \in Calls : calls[k].args = MilestoneLookupArgs(Repo, t)}
MilestoneCreates(t) == {k \in Calls : calls[k].args = MilestoneCreateArgs(Repo, t)}
LabelLookups(l) == {k \in Calls : calls[k].args = LabelLookupArgs(l)}
LabelCreates(l) == {k \in Calls : IsLabelCreate(calls[k].args) /\ calls[k].args[3] = l}
Submissions(i) == {k \in Calls : calls[k].issue = i /\ IsIssueCreate(calls[k].args)}

\* the create request at k comes right after the query at k - 1, in the same
\* create_issue, and it failed
FailedAfter(k, creates) ==
    /\ k + 1 \in creates
    /\ calls[k + 1].issue = calls[k].issue
    /\ ~Truthy(calls[k + 1].ret)

\* ----------------------------------------------------------------- claims

\* C1: in dry-run mode no remote call is ever made: no milestone or label query
\* or create request, no issue submission.
C1_DryRunMakesNoRemoteCall == dry_run => calls = <<>>

C1_Witness ==
    /\ dry_run
    /\ summary.printed = "Summary"
    /\ summary.created = 2
    /\ DOMAIN milestone_cache # {}
    /\ label_cache # <<>>

\* C2 as stated: in a live run a milestone title is queried and requested at
\* most once in the whole run, whatever the answers.
C2_OneSequencePerTitle ==
    ~dry_run =>
        \A t \in MilestoneTitles :
            Cardinality(MilestoneLookups(t)) <= 1 /\ Cardinality(MilestoneCreates(t)) <= 1

\* C2 amended: in a live run every lookup-or-create sequence for a title but the
\* last one failed (nothing found, create request failed) and belongs to an
\* earlier record; so a title is resolved at most once, later issues make no
\* remote milestone call for it, and the cached identifier is GitHub's number.
C2_ResolvedAtMostOnce ==
    ~dry_run =>
        \A t \in MilestoneTitles :
            /\ \A k1, k2 \in MilestoneLookups(t) :
                    k1 < k2 =>
                        /\ FailedAfter(k1, MilestoneCreates(t))
                        /\ calls[k1].issue < calls[k2].issue
            /\ \A k \in MilestoneCreates(t) : k - 1 \in MilestoneLookups(t)
            /\ t \in DOMAIN milestone_cache =>
                    /\ MilestoneLookups(t) # {}
                    /\ t \in DOMAIN gh_milestones
                    /\ milestone_cache[t] = gh_milestones[t]

C2_Witness ==
    /\ ~dry_run
    /\ Len(invocations) = 2
    /\ \A i \in Invoked : Truthy(TitleOf(i)) /\ MilestoneOf(i) = <<"M2">>
    /\ \A i \in Invoked : Submissions(i) # {}
    /\ Cardinality(MilestoneLookups(<<"M2">>)) = 1
    /\ Cardinality(MilestoneCreates(<<"M2">>)) = 1
    /\ <<"M2">> \in DOMAIN milestone_cache

\* C3 as stated: in a live run a label name is queried at most once and a create
\* request for it is issued at most once in the whole run, whatever the answers.
C3_OneSequencePerLabel ==
    ~dry_run =>
        \A l \in LabelNames :
            Cardinality(LabelLookups(l)) <= 1 /\ Cardinality(LabelCreates(l)) <= 1

\* C3 amended: in a live run every lookup-or-create sequence for a label name but
\* the last one failed (nothing found, create request failed); so once a name is
\* confirmed no remote label call is made for it again, and a create request for
\* a name succeeds at most once.
C3_ConfirmedAtMostOnce ==
    ~dry_run =>
        \A l \in LabelNames :
            /\ \A k1, k2 \in LabelLookups(l) :
                    k1 < k2 => FailedAfter(k1, LabelCreates(l))
            /\ \A k \in LabelCreates(l) : k - 1 \in LabelLookups(l)
            /\ \A k1, k2 \in LabelCreates(l) : k1 < k2 => calls[k1].ret = None
            /\ InList(l, label_cache) => LabelLookups(l) # {} /\ l \in gh_labels

C3_Witness ==
    /\ ~dry_run
    /\ Len(invocations) = 1
    /\ Truthy(TitleOf(1))
    /\ LabelsOf(1) = << <<"L2">>, <<"L2">> >>
    /\ Submissions(1) # {}
    /\ Cardinality(LabelLookups(<<"L2">>)) = 1
    /\ Cardinality(LabelCreates(<<"L2">>)) = 1
    /\ InList(<<"L2">>, label_cache)

\* the milestone of record i was not resolved: its create request failed
MilestoneFailed(i) ==
    \E k \in Calls :
        /\ calls[k].issue = i
        /\ IsMilestoneCreate(calls[k].args)
        /\ ~Truthy(calls[k].ret)

\* a create request for a label of record i failed
LabelFailed(i) ==
    \E k \in Calls :
        /\ calls[k].issue = i
        /\ IsLabelCreate(calls[k].args)
        /\ calls[k].ret = None

\* the argument that follows option opt in argv args (<<>> when opt is absent)
Option(args, opt) ==
    IF \E p \in 1..(Len(args) - 1) : args[p] = opt
    THEN args[1 + CHOOSE p \in 1..(Len(args) - 1) : args[p] = opt]
    ELSE <<>>

Contains(arg, name) ==
    \E p \in 1..Len(arg) :
        p + Len(name) - 1 <= Len(arg) /\ SubSeq(arg, p, p + Len(name) - 1) = name

Count(P(_)) == Cardinality({i \in Invoked : P(i)})

\* C4: when the milestone an issue names is not resolved, create_issue returns
\* failure, no submission is made for the issue, and the failed tally (and the
\* summary's) counts the issue.
C4_UnresolvedMilestoneFailsIssue ==
    /\ \A i \in Invoked :
            MilestoneFailed(i) =>
                /\ Truthy(MilestoneOf(i))
                /\ invocations[i].ret = FALSE
                /\ Submissions(i) = {}
    /\ failed = Cardinality({i \in Invoked : ~invocations[i].ret})
    /\ failed >= Count(MilestoneFailed)
    /\ summary.printed = "Summary" => summary.failed = failed

C4_Witness ==
    /\ summary.printed = "Summary"
    /\ \E i \in Invoked : MilestoneFailed(i) /\ "labels" \in DOMAIN Record(i)
    /\ summary.created = 1

\* C5: in a live run an issue with a title whose milestone, if any, resolved is
\* submitted exactly once, also when creating some of its labels failed, and
\* the --label argument holds every label the record names.
C5_LabelFailureStillSubmits ==
    ~dry_run =>
        \A i \in Invoked :
            Truthy(TitleOf(i)) /\ ~MilestoneFailed(i) =>
                /\ Cardinality(Submissions(i)) = 1
                /\ \A k \in Submissions(i) :
                     \A j \in 1..Len(LabelsOf(i)) :
                        Contains(Option(calls[k].args, <<"--label">>), LabelsOf(i)[j])

C5_Witness ==
    /\ ~dry_run
    /\ \E i \in Invoked :
        /\ LabelFailed(i)
        /\ Len(LabelsOf(i)) = 2
        /\ LabelsOf(i)[1] # LabelsOf(i)[2]
        /\ ~InList(LabelsOf(i)[2], label_cache)
        /\ Submissions(i) # {}

\* C6: for a record whose title is missing or empty, in either mode, the
\* iteration makes no remote call, leaves both caches (and GitHub) as they
\* were, has create_issue return failure and adds one to the failed tally only.
C6_NoTitleStep ==
    (pc = "loop" /\ idx <= Len(issues) /\ Get(issues[idx], "title", None) \in {None, <<>>})
        => /\ calls' = calls
           /\ milestone_cache' = milestone_cache
           /\ label_cache' = label_cache
           /\ gh_milestones' = gh_milestones
           /\ gh_labels' = gh_labels
           /\ Len(invocations') = idx
           /\ invocations'[idx].ret = FALSE
           /\ failed' = failed + 1
           /\ created' = created

C6_NoTitleFails == [][C6_NoTitleStep]_vars

C6_Witness ==
    /\ summary.printed = "Summary"
    /\ \E i \in Invoked :
        /\ TitleOf(i) = <<>>
        /\ "title" \in DOMAIN Record(i)
        /\ "milestone" \in DOMAIN Record(i)
        /\ "labels" \in DOMAIN Record(i)
        /\ invocations[i].ret = FALSE
    /\ summary.failed = 1
    /\ summary.total = 2

\* the records create_issue was invoked on, in the order of the invocations
InvokedOn == [i \in Invoked |-> Record(i)]

\* C7: process_yaml never aborts early: whatever the remote calls answer,
\* create_issue is invoked on the records in their order, once each, and a run
\* that entered the loop reaches the summary with every record processed.
C7_BatchRunsToSummary ==
    /\ [](Len(invocations) <= Len(issues)
            /\ InvokedOn = SubSeq(issues, 1, Len(invocations))
            /\ (pc = "loop" => idx = Len(invocations) + 1))
    /\ (pc = "loop") ~>
            (/\ pc = "exited"
             /\ exit_code = 0
             /\ summary.printed = "Summary"
             /\ summary.total = Len(issues)
             /\ InvokedOn = issues)

C7_Witness ==
    /\ summary.printed = "Summary"
    /\ Len(invocations) = 2
    /\ ~invocations[1].ret
    /\ invocations[2].ret
    /\ \E k \in Calls : calls[k].issue = 1 /\ calls[k].ret = None
    /\ \E k \in Calls : calls[k].issue = 2

\* every logged answer of the run is a success, with output for a submission
AllCallsSucceeded ==
    \A k \in Calls :
        /\ calls[k].ret # None
        /\ IsIssueCreate(calls[k].args) => calls[k].ret # <<>>

\* C8: the created and failed counts of a dry run equal those of a live run
\* over the same document in which every remote call succeeds.
C8_DryRunCountsAsLiveRun ==
    (/\ first_run.printed = "Summary"
     /\ summary.printed = "Summary"
     /\ AllCallsSucceeded)
        => /\ summary.total = first_run.total
           /\ summary.created = first_run.created
           /\ summary.failed = first_run.failed

C8_Witness ==
    /\ first_run.printed = "Summary"
    /\ summary.printed = "Summary"
    /\ ~dry_run
    /\ AllCallsSucceeded
    /\ \E k \in Calls : IsMilestoneCreate(calls[k].args)
    /\ \E k \in Calls : IsLabelLookup(calls[k].args)
    /\ summary.created = 1
    /\ summary.failed = 1

\* everything GitHub holds was created by this run: nothing existed before it
NothingExistedBefore ==
    /\ \A t \in DOMAIN gh_milestones :
            \E k \in MilestoneCreates(t) : Truthy(calls[k].ret)
    /\ \A l \in gh_labels : \E k \in LabelCreates(l) : calls[k].ret # None

AllTitled == \A i \in 1..Len(issues) : Truthy(Get(issues[i], "title", None))

\* C9 as stated: N records with a title, nothing on GitHub before the run: a live
\* run makes exactly N issue submissions, one per record.
C9_ExactlyNSubmissions ==
    (~dry_run /\ summary.printed = "Summary" /\ AllTitled /\ NothingExistedBefore)
        => /\ \A i \in Invoked : Cardinality(Submissions(i)) = 1
           /\ Cardinality({k \in Calls : IsIssueCreate(calls[k].args)}) = Len(issues)

\* C9 amended: N records with a title, nothing on GitHub before the run: a live
\* run makes exactly one submission for every record whose milestone, if it
\* names one, was resolved, and none for a record whose milestone create
\* request failed; so at most N, and exactly N when no such request fails.
C9_OneSubmissionPerResolvedRecord ==
    (~dry_run /\ summary.printed = "Summary" /\ AllTitled /\ NothingExistedBefore)
        => /\ \A i \in Invoked :
                Cardinality(Submissions(i)) = IF MilestoneFailed(i) THEN 0 ELSE 1
           /\ Cardinality({k \in Calls : IsIssueCreate(calls[k].args)})
                = Len(issues) - Count(MilestoneFailed)

C9_Witness ==
    /\ ~dry_run
    /\ summary.printed = "Summary"
    /\ AllTitled
    /\ NothingExistedBefore
    /\ Len(issues) = 2
    /\ Cardinality({k \in Calls : IsIssueCreate(calls[k].args)}) = 2
    /\ DOMAIN gh_milestones # {}
    /\ gh_labels # {}

\* the document holds no issue collection, or an empty one
NoIssues ==
    \/ yaml_file.kind = "not a mapping"
    \/ yaml_file.kind = "mapping" /\ Get(yaml_file.data, "issues", <<>>) = <<>>

\* C10: on a document whose issue collection is empty or absent process_yaml
\* reports it and the run ends normally, exit status 0, without any
\* create_issue invocation or remote call (a run that ended at the gh check
\* never reached process_yaml).
C10_EmptyDocumentEndsNormally ==
    NoIssues =>
        /\ invocations = <<>>
        /\ calls = <<>>
        /\ pc = "exited" =>
                \/ exit_code = 0 /\ summary = NoIssuesFound
                \/ exit_code = 1 /\ summary = GhNotFound

\* C11: on a document that cannot be read or parsed the run ends with a
\* non-zero exit status, create_issue is never invoked and no remote call is
\* made.
C11_UnreadableDocumentExitsNonZero ==
    yaml_file.kind = "unreadable" =>
        /\ invocations = <<>>
        /\ calls = <<>>
        /\ issues = <<>>
        /\ pc \in {"main", "load", "exited"}
        /\ pc = "exited" => exit_code # 0 /\ exit_code # NoneInt

C11_Witness ==
    /\ yaml_file.kind = "unreadable"
    /\ pc = "exited"
    /\ summary = LoadFailed
    /\ exit_code = 1

\* C12: when gh is not installed, or is installed but not logged in, main
\* reports it and exits with a non-zero status before the document is loaded
\* and before any record is processed.
C12_UnusableGhStopsBeforeLoad ==
    gh_cli # "ready" =>
        /\ pc \in {"main", "exited"}
        /\ issues = <<>>
        /\ invocations = <<>>
        /\ pc = "exited" => exit_code = 1 /\ summary = GhNotFound

\* C13: a run that passed the gh check and whose document was loaded without
\* an error ends with exit status 0, whatever happened to its records.
C13_LoadedRunExitsZero ==
    (gh_cli # "missing" /\ yaml_file.kind # "unreadable" /\ pc = "exited")
        => exit_code = 0

\* A create request of this step for a name that exists on GitHub before the
\* step.  Within one create_issue a name that exists stays, and a name that a
\* request of the step created is cached and not requested again, so "before
\* the step" is "at the moment of the request".
RequestsExisting(made) ==
    \E k \in 1..Len(made) :
        \/ \E t \in DOMAIN gh_milestones : made[k].args = MilestoneCreateArgs(Repo, t)
        \/ \E l \in gh_labels : IsLabelCreate(made[k].args) /\ made[k].args[3] = l

C14_Step == ~RequestsExisting(SubSeq(calls', Len(calls) + 1, Len(calls')))

\* C14 as stated: no create request is ever issued for a milestone title or a
\* label name that exists on GitHub at that moment, whatever the queries
\* answered.
C14_NeverRequestsExisting == [][C14_Step]_vars

\* the outcomes of the next create_issue, with what its queries answered
Answered == create_issue([Self EXCEPT !.answers = TRUE], issues[idx])

\* the create request at k comes right after the query of the same name, and
\* either that query failed or the name does not exist on GitHub
AfterMissedLookup(made, k) ==
    /\ \A t \in MilestoneTitles :
            made[k].args = MilestoneCreateArgs(Repo, t) =>
                /\ k > 1
                /\ made[k - 1].args = MilestoneLookupArgs(Repo, t)
                /\ made[k - 1].ret = None \/ t \notin DOMAIN gh_milestones
    /\ \A l \in LabelNames :
            (IsLabelCreate(made[k].args) /\ made[k].args[3] = l) =>
                /\ k > 1
                /\ made[k - 1].args = LabelLookupArgs(l)
                /\ made[k - 1].ret = None \/ l \notin gh_labels

\* C14, amended: a create request for a milestone title or a label name is
\* issued only right after the query of that name, and only when that query
\* failed or no milestone or label of that name exists on GitHub; a request
\* for a name that exists fails and changes nothing there.
C14_CreateOnlyAfterMissedLookup ==
    (pc = "loop" /\ idx <= Len(issues)) =>
        \A x \in Answered :
            /\ \A k \in 1..Len(x.w.calls) : AfterMissedLookup(x.w.calls, k)
            /\ RequestsExisting(x.w.calls) =>
                    /\ \A t \in DOMAIN gh_milestones :
                            /\ t \in DOMAIN x.w.gh_milestones
                            /\ x.w.gh_milestones[t] = gh_milestones[t]
                    /\ gh_labels \subseteq x.w.gh_labels

\* a create request was issued for a milestone that existed before the run,
\* and failed
C14_Witness ==
    /\ ~dry_run
    /\ <<"M1">> \in DOMAIN gh_milestones
    /\ gh_milestones[<<"M1">>] = 2
    /\ \E k \in MilestoneCreates(<<"M1">>) : calls[k].ret = None

HasOption(args, opt) == \E p \in 1..Len(args) : args[p] = opt

\* the label names, each of one token, with a comma between two of them
CommaSeparated(labels) ==
    [p \in 1..(2 * Len(labels) - 1) |->
        IF p % 2 = 1 THEN labels[(p + 1) \div 2][1] ELSE ","]

\* C15: the submission of a live run carries the title and the body of the
\* record; --label, with the labels joined by commas, exactly when the record
\* has labels; --milestone, with the title of the milestone and not its
\* number, exactly when the record names a milestone; and nothing else.
C15_SubmissionArguments ==
    ~dry_run =>
        \A i \in Invoked : \A k \in Submissions(i) :
            LET args == calls[k].args
                labels == LabelsOf(i)
                named == MilestoneOf(i) \notin {None, <<>>}
            IN /\ Len(args) >= 6
               /\ SubSeq(args, 1, 6) =
                    << <<"issue">>, <<"create">>, <<"--title">>, TitleOf(i),
                       <<"--body">>, Get(Record(i), "body", <<>>) >>
               /\ HasOption(args, <<"--label">>) <=> labels # <<>>
               /\ labels # <<>> =>
                    Option(args, <<"--label">>) = CommaSeparated(labels)
               /\ HasOption(args, <<"--milestone">>) <=> named
               /\ named =>
                    /\ Option(args, <<"--milestone">>) = MilestoneOf(i)
                    /\ Option(args, <<"--milestone">>)
                            # Str(milestone_cache[MilestoneOf(i)])
               /\ Len(args) = 6 + (IF labels # <<>> THEN 2 ELSE 0)
                                 + (IF named THEN 2 ELSE 0)

C15_Witness ==
    /\ ~dry_run
    /\ summary.printed = "Summary"
    /\ summary.created = 1
    /\ \E k \in Submissions(1) :
        /\ Option(calls[k].args, <<"--body">>) = <<"B">>
        /\ Option(calls[k].args, <<"--label">>) = <<"L2", ",", "L1">>
        /\ Option(calls[k].args, <<"--milestone">>) = <<"M1">>
        /\ milestone_cache[<<"M1">>] = 2

\* C16: in a live run create_issue returns success for a record that reached
\* the submission exactly when the submission gave a non-empty output: a
\* submission that failed and one that printed nothing are both failures; and
\* no record succeeds without a submission.
C16_CreatedIffSubmissionHasOutput ==
    ~dry_run =>
        \A i \in Invoked :
            /\ \A k \in Submissions(i) :
                    invocations[i].ret <=> calls[k].ret \notin {None, <<>>}
            /\ invocations[i].ret => Submissions(i) # {}

C16_Witness ==
    /\ ~dry_run
    /\ Len(invocations) = 2
    /\ \E k \in Submissions(1) : calls[k].ret = <<>>
    /\ ~invocations[1].ret
    /\ \E k \in Submissions(2) : calls[k].ret = <<"https://github.com/issue-url">>
    /\ invocations[2].ret

C17_Step ==
    /\ \A t \in DOMAIN milestone_cache :
            /\ t \in DOMAIN milestone_cache'
            /\ milestone_cache'[t] = milestone_cache[t]
    /\ Len(label_cache') >= Len(label_cache)
    /\ SubSeq(label_cache', 1, Len(label_cache)) = label_cache

\* C17: within a run the caches only grow: no step removes a milestone title
\* or a label from its cache, and the number cached for a milestone title
\* never changes.
C17_CachesOnlyGrow == [][C17_Step]_vars

C17_Witness ==
    /\ ~dry_run
    /\ Len(invocations) = 2
    /\ \E t \in DOMAIN milestone_cache :
            \E k \in MilestoneLookups(t) : calls[k].issue = 1
    /\ \E k \in Calls : calls[k].issue = 2 /\ IsLabelLookup(calls[k].args)
    /\ Len(label_cache) = 1

\* C18: at every point of the loop created + failed is the number of records
\* processed so far and created is the number of create_issue invocations
\* that returned success; the summary's counts add up to the number of
\* records of the document.
C18_TalliesAddUp ==
    /\ created + failed = Len(invocations)
    /\ pc = "loop" => created + failed = idx - 1
    /\ created = Cardinality({i \in Invoked : invocations[i].ret})
    /\ summary.printed = "Summary" =>
            /\ summary.created = created
            /\ summary.created + summary.failed = summary.total
            /\ summary.total = Len(issues)

C18_Witness ==
    /\ summary.printed = "Summary"
    /\ summary.total = 2
    /\ summary.created = 1
    /\ summary.failed = 1
    /\ invocations[1].ret
    /\ ~invocations[2].ret

\* the stage of create_issue an invocation belongs to
Stage(args) ==
    IF IsMilestoneLookup(args) \/ IsMilestoneCreate(args) THEN 1
    ELSE IF IsLabelLookup(args) \/ IsLabelCreate(args) THEN 2
    ELSE 3

C19_Step ==
    LET made == SubSeq(calls', Len(calls) + 1, Len(calls'))
    IN (\E k \in 1..Len(made) :
            IsMilestoneCreate(made[k].args) /\ ~Truthy(made[k].ret))
        => /\ label_cache' = label_cache
           /\ gh_labels' = gh_labels

\* C19: among the invocations made for one record, the milestone query and
\* create request come before every label query and create request, and these
\* before the submission; when the milestone is not resolved no label query
\* or create request is made for the record, and the label cache is left as
\* it was.
C19_MilestoneThenLabelsThenSubmission ==
    /\ [](\A j, k \in Calls :
            (j < k /\ calls[j].issue = calls[k].issue)
                => Stage(calls[j].args) <= Stage(calls[k].args))
    /\ [](\A i \in Invoked :
            MilestoneFailed(i) =>
                \A k \in Calls : calls[k].issue = i => Stage(calls[k].args) = 1)
    /\ [][C19_Step]_vars

C19_Witness ==
    \E i \in Invoked :
        /\ \E k \in Submissions(i) :
            /\ k = 5
            /\ IsMilestoneLookup(calls[1].args)
            /\ IsMilestoneCreate(calls[2].args)
            /\ IsLabelLookup(calls[3].args)
            /\ IsLabelCreate(calls[4].args)
        /\ "milestone" \in DOMAIN Record(i)
        /\ Len(LabelsOf(i)) = 1
====
